---- MODULE Spec2Model ----
(***************************************************************************)
(* Model of src/demos/python/demo_masonry.py: a script that builds a stack *)
(* of bricks, a fixed floor and a shaking table locked to the floor with   *)
(* two imposed motion laws, writes the POV-Ray script once, and then runs  *)
(* the step loop  while GetChTime() < 2: DoStepDynamics(0.005); Export.    *)
(*                                                                         *)
(* Numbers.  The geometry and mass values of the script are kept as exact  *)
(* rationals <<num, den>> (the script only halves and multiplies them).    *)
(* The simulation clock is an IEEE-754 binary64, as the Python float and   *)
(* the engine's double are: it is kept as four 16-bit limbs, little        *)
(* endian, counting units of 2^-60, and every sum is rounded to 53         *)
(* significant bits, ties to even.                                         *)
(***************************************************************************)
EXTENDS Integers, Sequences, FiniteSets, TLC

\* Number of sample points on each side of zero used for the sampled value
\* of a motion law and for the displacement of a free body in one step.
MaxDisp == 1

(***************************************************************************)
(* Exact rationals                                                         *)
(*                                                                         *)
(* The arithmetic is written as functions, which TLC applies to values, so *)
(* that nested expressions are evaluated once.                             *)
(***************************************************************************)
gcd[a \in Nat, b \in Nat] == IF b = 0 THEN a ELSE gcd[b, a % b]

Abs(n) == IF n < 0 THEN -n ELSE n

norm[n \in Int, d \in Int] ==
  LET g == gcd[Abs(n), Abs(d)]
      s == IF d < 0 THEN -1 ELSE 1
  IN  <<(s * n) \div g, (s * d) \div g>>

Rat == Int \X Int
radd[a \in Rat, b \in Rat] == norm[a[1] * b[2] + b[1] * a[2], a[2] * b[2]]
rsub[a \in Rat, b \in Rat] == norm[a[1] * b[2] - b[1] * a[2], a[2] * b[2]]
rmul[a \in Rat, b \in Rat] == norm[a[1] * b[1], a[2] * b[2]]
rdiv[a \in Rat, b \in Rat] == norm[a[1] * b[2], a[2] * b[1]]

Norm(n, d) == norm[n, d]
R(n) == <<n, 1>>
Dec(n, d) == norm[n, d]
RAdd(a, b) == radd[a, b]
RSub(a, b) == rsub[a, b]
RMul(a, b) == rmul[a, b]
RDiv(a, b) == rdiv[a, b]
RLt(a, b)  == a[1] * b[2] < b[1] * a[2]
RPow2(a)   == rmul[a, a]

Vec == Rat \X Rat \X Rat
vadd[u \in Vec, v \in Vec] == <<radd[u[1], v[1]], radd[u[2], v[2]], radd[u[3], v[3]]>>
vsub[u \in Vec, v \in Vec] == <<rsub[u[1], v[1]], rsub[u[2], v[2]], rsub[u[3], v[3]]>>

ChVectorD(x, y, z) == <<x, y, z>>
VAdd(u, v) == vadd[u, v]
VSub(u, v) == vsub[u, v]
VNULL == <<R(0), R(0), R(0)>>

(***************************************************************************)
(* IEEE-754 binary64 values in [0, 16), as limbs of units of 2^-60         *)
(***************************************************************************)
Limb == 2 ^ 16

RECURSIVE BitLen(_)
BitLen(n) == IF n = 0 THEN 0 ELSE 1 + BitLen(n \div 2)

Bits(a) ==
  IF a[4] > 0 THEN 48 + BitLen(a[4])
  ELSE IF a[3] > 0 THEN 32 + BitLen(a[3])
  ELSE IF a[2] > 0 THEN 16 + BitLen(a[2])
  ELSE BitLen(a[1])

\* The exact sum of two limb vectors.
AddLimbs(a, b) ==
  LET s1 == a[1] + b[1]
      s2 == a[2] + b[2] + (s1 \div Limb)
      s3 == a[3] + b[3] + (s2 \div Limb)
      s4 == a[4] + b[4] + (s3 \div Limb)
  IN  <<s1 % Limb, s2 % Limb, s3 % Limb, s4>>

\* Round an exact value to 53 significant bits, ties to even.
RoundToDouble(a) ==
  LET j == Bits(a) - 53
  IN  IF j <= 0 THEN a
      ELSE LET u    == 2 ^ j
               r    == a[1] % u
               odd  == (a[1] \div u) % 2 = 1
               down == <<a[1] - r, a[2], a[3], a[4]>>
           IN  IF 2 * r > u \/ (2 * r = u /\ odd)
               THEN AddLimbs(down, <<u, 0, 0, 0>>)
               ELSE down

\* a + b in binary64.
FAdd(a, b) == RoundToDouble(AddLimbs(a, b))

\* a < b in binary64.
FLt(a, b) ==
  \/ a[4] < b[4]
  \/ a[4] = b[4] /\ a[3] < b[3]
  \/ a[4] = b[4] /\ a[3] = b[3] /\ a[2] < b[2]
  \/ a[4] = b[4] /\ a[3] = b[3] /\ a[2] = b[2] /\ a[1] < b[1]

\* The binary64 nearest to the decimal literal n/d (0 <= n < 16): the
\* quotient of n * 2^60 by d, limb by limb from the top, rounded to nearest,
\* ties to even, then to 53 bits.
FloatLiteral(n, d) ==
  LET n4 == n * 2 ^ 12
      q4 == n4 \div d
      r4 == n4 % d
      q3 == (r4 * Limb) \div d
      r3 == (r4 * Limb) % d
      q2 == (r3 * Limb) \div d
      r2 == (r3 * Limb) % d
      q1 == (r2 * Limb) \div d
      r1 == (r2 * Limb) % d
      q  == <<q1, q2, q3, q4>>
  IN  RoundToDouble(IF 2 * r1 > d \/ (2 * r1 = d /\ q1 % 2 = 1)
                    THEN AddLimbs(q, <<1, 0, 0, 0>>)
                    ELSE q)

FZero == <<0, 0, 0, 0>>

(***************************************************************************)
(* The scene's parameters                                                  *)
(***************************************************************************)
brick_material ==
  [friction    |-> Dec(5, 10),
   dampingF    |-> Dec(2, 10),
   compliance  |-> Dec(1, 10000000),
   complianceT |-> Dec(1, 10000000)]

nbricks_on_x == 1
nbricks_on_y == 6

size_brick_x == Dec(25, 100)
size_brick_y == Dec(12, 100)
size_brick_z == Dec(12, 100)
density_brick == R(1000)
mass_brick ==
  RMul(RMul(RMul(density_brick, size_brick_x), size_brick_y), size_brick_z)
inertia_brick ==
  RMul(RMul(RDiv(R(2), R(5)), RPow2(size_brick_x)), mass_brick)

size_table_x == R(1)
size_table_y == Dec(2, 10)
size_table_z == R(1)

\* A body as its constructor leaves it: at the origin, not rotated, at rest,
\* free, with unit mass and inertia and no collision box.
ChBodyShared ==
  [name     |-> "body",
   fixed    |-> FALSE,
   pos      |-> VNULL,
   rot      |-> VNULL,
   vel      |-> VNULL,
   mass     |-> R(1),
   inertia  |-> <<R(1), R(1), R(1)>>,
   box      |-> VNULL,
   collide  |-> FALSE,
   material |-> [friction |-> R(0), dampingF |-> R(0),
                 compliance |-> R(0), complianceT |-> R(0)]]

\* Mutant of BrickPos: the half-brick offset of the centre is left out.
BrickPosNoHalf(i, j) ==
  ChVectorD(RMul(R(i), size_brick_x), RMul(R(j), size_brick_y), R(0))

\* SetPos of the brick (ix, iy).
BrickPos(i, j) ==
  ChVectorD(RMul(R(i), size_brick_x),
            RMul(RAdd(R(j), Dec(5, 10)), size_brick_y),
            R(0))

\* Mutant of BrickBox: the full sizes are given where half sizes are due.
BrickBoxFullSizes == ChVectorD(size_brick_x, size_brick_y, size_brick_z)

\* The half sizes given to the brick's collision box.
BrickBox ==
  ChVectorD(RDiv(size_brick_x, R(2)),
            RDiv(size_brick_y, R(2)),
            RDiv(size_brick_z, R(2)))

body_brick(i, j) ==
  [ChBodyShared EXCEPT
     !.name     = "brick",
     !.pos      = BrickPos(i, j),
     !.mass     = mass_brick,
     !.inertia  = ChVectorD(inertia_brick, inertia_brick, inertia_brick),
     !.material = brick_material,
     !.box      = BrickBox,
     !.collide  = TRUE]

\* Mutant of body_floor: SetBodyFixed(True) is left out.
body_floor_not_fixed ==
  [ChBodyShared EXCEPT
     !.name     = "floor",
     !.pos      = ChVectorD(R(0), R(-2), R(0)),
     !.material = brick_material,
     !.box      = ChVectorD(R(3), R(1), R(3)),
     !.collide  = TRUE]

body_floor ==
  [ChBodyShared EXCEPT
     !.name     = "floor",
     !.fixed    = TRUE,
     !.pos      = ChVectorD(R(0), R(-2), R(0)),
     !.material = brick_material,
     !.box      = ChVectorD(R(3), R(1), R(3)),
     !.collide  = TRUE]

TablePos == ChVectorD(R(0), RDiv(RSub(R(0), size_table_y), R(2)), R(0))

body_table ==
  [ChBodyShared EXCEPT
     !.name     = "table",
     !.pos      = TablePos,
     !.material = brick_material,
     !.box      = ChVectorD(RDiv(size_table_x, R(2)),
                            RDiv(size_table_y, R(2)),
                            RDiv(size_table_z, R(2))),
     !.collide  = TRUE]

\* The six relative degrees of freedom of a lock joint.
TransDOF == {"X", "Y", "Z"}
RotDOF   == {"RX", "RY", "RZ"}
DOF      == TransDOF \cup RotDOF

\* The identity coordinate system at the absolute origin.
CSYSNORM == [pos |-> VNULL, rot |-> VNULL]

\* ChFunction_Sine(phase, frequency, amplitude)
ChFunction_Sine(ph, fr, am) ==
  [set |-> TRUE, phase |-> ph, freq |-> fr, amp |-> am]

\* A degree of freedom with no motion law: held at the reference.
NoMotion == [set |-> FALSE, phase |-> R(0), freq |-> R(0), amp |-> R(0)]

mfunY == ChFunction_Sine(R(0), Dec(15, 10), Dec(1, 1000))

\* Mutant of mfunZ: the amplitude of mfunY is given again.
mfunZ_amplitude_of_Y == ChFunction_Sine(R(0), Dec(15, 10), Dec(1, 1000))

mfunZ == ChFunction_Sine(R(0), Dec(15, 10), Dec(12, 100))

\* The literals of the step loop, as binary64.
step_size == FloatLiteral(5, 1000)
stop_time == FloatLiteral(2, 1)

\* SetIterLCPmaxItersSpeed(70)
IterLCPmaxItersSpeed == 70

(***************************************************************************)
(* The program's state                                                     *)
(***************************************************************************)
VARIABLES
  pc,        \* the statement the script is at
  ix, iy,    \* the indices of the brick loops
  bodies,    \* my_system's bodies, in the order they were added
  link,      \* link_shaker
  ChTime,    \* my_system's simulation clock, a binary64
  maxIters,  \* my_system's solver iteration budget
  exporter,  \* pov_exporter
  nSteps,    \* history: DoStepDynamics calls so far
  scene0     \* history: the bodies as they were when the first step began

vars ==
  <<pc, ix, iy, bodies, link, ChTime, maxIters, exporter, nSteps, scene0>>

NoLink ==
  [added  |-> FALSE,
   body1  |-> "none",
   body2  |-> "none",
   mark1  |-> CSYSNORM,
   mark2  |-> CSYSNORM,
   motion |-> [a \in DOF |-> NoMotion]]

NoExporter ==
  [created  |-> FALSE,
   items    |-> 0,
   scripts  |-> 0,
   frames   |-> 0,
   prevTime |-> FZero,
   lastTime |-> FZero,
   lastStep |-> 0]

Init ==
  /\ pc = "bricks"
  /\ ix = 0
  /\ iy = 0
  /\ bodies = <<>>
  /\ link = NoLink
  /\ ChTime = FZero
  /\ maxIters = 0
  /\ exporter = NoExporter
  /\ nSteps = 0
  /\ scene0 = <<>>

Body(name) == bodies[CHOOSE i \in DOMAIN bodies : bodies[i].name = name]
HasBody(name) == \E i \in DOMAIN bodies : bodies[i].name = name

(***************************************************************************)
(* Scene construction                                                      *)
(***************************************************************************)
\* One pass of the body of the two nested brick loops.
CreateBrick ==
  /\ pc = "bricks"
  /\ ix < nbricks_on_x
  /\ iy < nbricks_on_y
  /\ bodies' = Append(bodies, body_brick(ix, iy))
  /\ iy' = IF iy + 1 < nbricks_on_y THEN iy + 1 ELSE 0
  /\ ix' = IF iy + 1 < nbricks_on_y THEN ix ELSE ix + 1
  /\ pc' = IF ix' < nbricks_on_x THEN "bricks" ELSE "floor"
  /\ UNCHANGED <<link, ChTime, maxIters, exporter, nSteps, scene0>>

CreateFloor ==
  /\ pc = "floor"
  /\ bodies' = Append(bodies, body_floor)
  /\ pc' = "table"
  /\ UNCHANGED <<ix, iy, link, ChTime, maxIters, exporter, nSteps, scene0>>

CreateTable ==
  /\ pc = "table"
  /\ bodies' = Append(bodies, body_table)
  /\ pc' = "link"
  /\ UNCHANGED <<ix, iy, link, ChTime, maxIters, exporter, nSteps, scene0>>

\* link_shaker.Initialize(body_table, body_floor, CSYSNORM): a marker on each
\* body, both at the given absolute coordinate system.
Initialize(b1, b2, csys) ==
  [added  |-> TRUE,
   body1  |-> b1.name,
   body2  |-> b2.name,
   mark1  |-> [pos |-> VSub(csys.pos, b1.pos), rot |-> VSub(csys.rot, b1.rot)],
   mark2  |-> [pos |-> VSub(csys.pos, b2.pos), rot |-> VSub(csys.rot, b2.rot)],
   motion |-> [a \in DOF |-> NoMotion]]

CreateLink ==
  /\ pc = "link"
  /\ link' = Initialize(Body("table"), Body("floor"), CSYSNORM)
  /\ pc' = "motionY"
  /\ UNCHANGED <<ix, iy, bodies, ChTime, maxIters, exporter, nSteps, scene0>>

SetMotion_Y ==
  /\ pc = "motionY"
  /\ link' = [link EXCEPT !.motion["Y"] = mfunY]
  /\ pc' = "motionZ"
  /\ UNCHANGED <<ix, iy, bodies, ChTime, maxIters, exporter, nSteps, scene0>>

\* Mutant of SetMotion_Z: the law is imposed on the X translation.
SetMotion_Z_on_X ==
  /\ pc = "motionZ"
  /\ link' = [link EXCEPT !.motion["X"] = mfunZ]
  /\ pc' = "exporter"
  /\ UNCHANGED <<ix, iy, bodies, ChTime, maxIters, exporter, nSteps, scene0>>

SetMotion_Z ==
  /\ pc = "motionZ"
  /\ link' = [link EXCEPT !.motion["Z"] = mfunZ]
  /\ pc' = "exporter"
  /\ UNCHANGED <<ix, iy, bodies, ChTime, maxIters, exporter, nSteps, scene0>>

\* postprocess.ChPovRay(my_system), its settings, and AddAll().
CreateExporter ==
  /\ pc = "exporter"
  /\ exporter' = [NoExporter EXCEPT
                    !.created = TRUE,
                    !.items = Len(bodies) + (IF link.added THEN 1 ELSE 0)]
  /\ pc' = "script"
  /\ UNCHANGED <<ix, iy, bodies, link, ChTime, maxIters, nSteps, scene0>>

ExportScript ==
  /\ pc = "script"
  /\ exporter' = [exporter EXCEPT !.scripts = @ + 1]
  /\ pc' = "solver"
  /\ UNCHANGED <<ix, iy, bodies, link, ChTime, maxIters, nSteps, scene0>>

SetIterLCPmaxItersSpeed ==
  /\ pc = "solver"
  /\ maxIters' = IterLCPmaxItersSpeed
  /\ pc' = "while"
  /\ UNCHANGED <<ix, iy, bodies, link, ChTime, exporter, nSteps, scene0>>

(***************************************************************************)
(* One step of the dynamics                                                *)
(*                                                                         *)
(* The solver's arithmetic is not modelled.  The value a motion law takes  *)
(* at the step's time is its amplitude times a sample s / MaxDisp, s in    *)
(* Disp, of the sine; laws of equal phase and frequency share the sample,  *)
(* as their sines are equal at every time.  A free body that no joint      *)
(* holds ends the step within MaxDisp displacement units of where it stood *)
(* when the first step began.  Samples and displacement are choices of the *)
(* step.                                                                   *)
(***************************************************************************)
Disp == (0 - MaxDisp) .. MaxDisp

DispUnit == Dec(1, 100)

Driven(l) == {a \in DOF : l.motion[a].set}
Undriven(l) == DOF \ Driven(l)

\* The value of a motion law at the sample s of its sine.
LawValue(law, s) == RMul(law.amp, Norm(s, MaxDisp))

\* The sines the driven degrees of freedom evaluate: <<phase, frequency>>.
Sines(l) == {<<l.motion[a].phase, l.motion[a].freq>> : a \in Driven(l)}

SineOf(l, a) == <<l.motion[a].phase, l.motion[a].freq>>

\* The imposed relative displacement along the degree of freedom a.
Imposed(l, smp, a) ==
  IF l.motion[a].set
  THEN LawValue(l.motion[a], smp[SineOf(l, a)])
  ELSE R(0)

\* The sampled rate of the imposed displacement along a.
ImposedRate(l, smp, a) ==
  IF l.motion[a].set THEN R(smp[SineOf(l, a)]) ELSE R(0)

\* A body that no joint holds, after a step with displacement d.
StepFree(b, b0, d) ==
  IF b.fixed THEN b
  ELSE [b EXCEPT !.pos = VAdd(b0.pos, ChVectorD(R(0), R(0), RMul(R(d), DispUnit))),
                 !.vel = ChVectorD(R(0), R(0), R(d))]

\* Body 1 of the lock joint, given body 2 after the step: marker 1 sits at
\* marker 2 plus the imposed displacements.
StepLocked(b, l, b2, smp) ==
  IF b.fixed THEN b
  ELSE [b EXCEPT
          !.pos = VSub(VAdd(VAdd(b2.pos, l.mark2.pos),
                            ChVectorD(Imposed(l, smp, "X"),
                                      Imposed(l, smp, "Y"),
                                      Imposed(l, smp, "Z"))),
                       l.mark1.pos),
          !.rot = VSub(VAdd(VAdd(b2.rot, l.mark2.rot),
                            ChVectorD(Imposed(l, smp, "RX"),
                                      Imposed(l, smp, "RY"),
                                      Imposed(l, smp, "RZ"))),
                       l.mark1.rot),
          !.vel = ChVectorD(ImposedRate(l, smp, "X"),
                            ImposedRate(l, smp, "Y"),
                            ImposedRate(l, smp, "Z"))]

\* The bodies after one step.
StepBodies(bs, bs0, l, smp, d) ==
  LET free == [i \in DOMAIN bs |-> StepFree(bs[i], bs0[i], d)]
      i2   == CHOOSE i \in DOMAIN bs : bs[i].name = l.body2
  IN  [i \in DOMAIN bs |->
         IF l.added /\ bs[i].name = l.body1
         THEN StepLocked(bs[i], l, free[i2], smp)
         ELSE free[i]]

\* my_system.DoStepDynamics(0.005)
DoStepDynamics ==
  /\ pc = "step"
  /\ \E smp \in [Sines(link) -> Disp], d \in Disp :
       LET start == IF nSteps = 0 THEN bodies ELSE scene0
       IN  /\ scene0' = start
           /\ bodies' = StepBodies(bodies, start, link, smp, d)
  /\ ChTime' = FAdd(ChTime, step_size)
  /\ nSteps' = nSteps + 1
  /\ pc' = "export"
  /\ UNCHANGED <<ix, iy, link, maxIters, exporter>>

(***************************************************************************)
(* The step loop                                                           *)
(***************************************************************************)
\* Mutant of LoopEnter: the loop body is entered whatever the clock says.
LoopEnterUnconditional ==
  /\ pc = "while"
  /\ pc' = "step"
  /\ UNCHANGED <<ix, iy, bodies, link, ChTime, maxIters, exporter, nSteps, scene0>>

\* while (my_system.GetChTime() < 2): the test succeeds.
LoopEnter ==
  /\ pc = "while"
  /\ FLt(ChTime, stop_time)
  /\ pc' = "step"
  /\ UNCHANGED <<ix, iy, bodies, link, ChTime, maxIters, exporter, nSteps, scene0>>

\* while (my_system.GetChTime() < 2): the test fails and the script ends.
LoopExit ==
  /\ pc = "while"
  /\ ~FLt(ChTime, stop_time)
  /\ pc' = "done"
  /\ UNCHANGED <<ix, iy, bodies, link, ChTime, maxIters, exporter, nSteps, scene0>>

\* Mutant of ExportData: the call is left out of the loop body.
ExportDataDedented ==
  /\ pc = "export"
  /\ pc' = "while"
  /\ UNCHANGED <<ix, iy, bodies, link, ChTime, maxIters, exporter, nSteps, scene0>>

\* Mutant of ExportData: the static script is written again with each frame.
ExportDataWithScript ==
  /\ pc = "export"
  /\ exporter' = [exporter EXCEPT
                    !.scripts  = @ + 1,
                    !.frames   = @ + 1,
                    !.prevTime = exporter.lastTime,
                    !.lastTime = ChTime,
                    !.lastStep = nSteps]
  /\ pc' = "while"
  /\ UNCHANGED <<ix, iy, bodies, link, ChTime, maxIters, nSteps, scene0>>

\* print('time=', my_system.GetChTime()); pov_exporter.ExportData()
ExportData ==
  /\ pc = "export"
  /\ exporter' = [exporter EXCEPT
                    !.frames   = @ + 1,
                    !.prevTime = exporter.lastTime,
                    !.lastTime = ChTime,
                    !.lastStep = nSteps]
  /\ pc' = "while"
  /\ UNCHANGED <<ix, iy, bodies, link, ChTime, maxIters, nSteps, scene0>>

Next ==
  \/ CreateBrick
  \/ CreateFloor
  \/ CreateTable
  \/ CreateLink
  \/ SetMotion_Y
  \/ SetMotion_Z
  \/ CreateExporter
  \/ ExportScript
  \/ SetIterLCPmaxItersSpeed
  \/ LoopEnter
  \/ DoStepDynamics
  \/ ExportData
  \/ LoopExit

Spec == Init /\ [][Next]_vars

\* The script runs to its end: no statement of it blocks.
FairSpec == Spec /\ WF_vars(Next)

(***************************************************************************)
(* Vocabulary of the properties                                            *)
(***************************************************************************)
Bricks == {i \in DOMAIN bodies : bodies[i].name = "brick"}

\* Every body of the script is in the system.
SceneBuilt == Len(bodies) = nbricks_on_x * nbricks_on_y + 2

\* The joint has been initialised and both motion laws have been given.
JointConfigured ==
  pc \notin {"bricks", "floor", "table", "link", "motionY", "motionZ"}

Twice(x) == RMul(R(2), x)

\* The faces of a body's collision box along the Y axis.
TopFace(b)    == RAdd(b.pos[2], b.box[2])
BottomFace(b) == RSub(b.pos[2], b.box[2])

LowestBrick ==
  bodies[CHOOSE i \in Bricks :
           \A j \in Bricks : ~RLt(bodies[j].pos[2], bodies[i].pos[2])]

\* The translation axes along which the bricks' positions differ.
AxisIndex(a) == CASE a = "X" -> 1 [] a = "Y" -> 2 [] a = "Z" -> 3
StackAxes ==
  {a \in TransDOF :
     \E i, j \in Bricks : bodies[i].pos[AxisIndex(a)] # bodies[j].pos[AxisIndex(a)]}

\* The pose of the joint's marker on body 1 relative to its marker on body 2,
\* along one degree of freedom; the reference set by Initialize is zero.
RelPos ==
  VSub(VAdd(Body(link.body1).pos, link.mark1.pos),
       VAdd(Body(link.body2).pos, link.mark2.pos))
RelRot ==
  VSub(VAdd(Body(link.body1).rot, link.mark1.rot),
       VAdd(Body(link.body2).rot, link.mark2.rot))
Rel(a) ==
  CASE a = "X"  -> RelPos[1] [] a = "Y"  -> RelPos[2] [] a = "Z"  -> RelPos[3]
    [] a = "RX" -> RelRot[1] [] a = "RY" -> RelRot[2] [] a = "RZ" -> RelRot[3]

(***************************************************************************)
(* The step loop: C1, C2, C3                                               *)
(***************************************************************************)
\* C1: the loop run from time 0 with step 0.005 and stop time 2 performs
\* exactly 400 DoStepDynamics calls and exactly 400 ExportData calls; the
\* k-th export sees the clock after k steps of 0.005, so that consecutive
\* time stamps are strictly increasing and one step apart.
C1_ExactlyFourHundredFrames ==
  /\ nSteps <= 400
  /\ exporter.frames <= 400
  /\ pc = "done" => nSteps = 400 /\ exporter.frames = 400
  /\ exporter.frames > 0 =>
       /\ exporter.lastStep = exporter.frames
       /\ FLt(exporter.prevTime, exporter.lastTime)
       /\ exporter.lastTime = FAdd(exporter.prevTime, step_size)

\* C2: ExportData is called exactly once per DoStepDynamics call and only
\* after that step has completed: the exports never outnumber the steps, a
\* step is one ahead of the exports exactly while its own export is pending,
\* the k-th export sees the state after the k-th step, with that step's
\* clock, and no export sees the clock of the state before the first step.
C2_ExportOncePerCompletedStep ==
  /\ exporter.frames <= nSteps
  /\ nSteps <= exporter.frames + 1
  /\ (nSteps = exporter.frames + 1) <=> (pc = "export")
  /\ exporter.frames > 0 =>
       /\ exporter.lastStep = exporter.frames
       /\ exporter.lastTime # FZero
       /\ FLt(exporter.prevTime, exporter.lastTime)
  /\ exporter.frames > 0 /\ pc # "export" => exporter.lastTime = ChTime

C2_Witness ==
  /\ pc = "step"
  /\ nSteps = 2
  /\ exporter.frames = 2

\* C3 as stated: the loop terminates, it is left only with the clock at or
\* past the stop time, and neither a step nor an export is performed once the
\* clock is at or past the stop time.
C3_NoStepOrExportPastStop ==
  /\ <>(pc = "done")
  /\ [](pc = "done" => ~FLt(ChTime, stop_time))
  /\ [][(nSteps' # nSteps \/ exporter.frames' # exporter.frames)
          => FLt(ChTime, stop_time)]_vars

\* C3 as amended: the loop terminates; it is left exactly at the first loop
\* test that finds the clock at or past the stop time and never while the
\* clock is below it; no step is performed once the clock is at or past the
\* stop time, and the only export performed then is the one that follows the
\* step which brought the clock there.
C3_Terminates ==
  /\ <>(pc = "done")
  /\ [](pc = "done" => ~FLt(ChTime, stop_time))
  /\ [][pc = "while" /\ ~FLt(ChTime, stop_time) => pc' = "done"]_vars
  /\ [][pc = "while" /\ FLt(ChTime, stop_time) => pc' # "done"]_vars
  /\ [][nSteps' # nSteps => FLt(ChTime, stop_time)]_vars
  /\ [][exporter.frames' # exporter.frames /\ ~FLt(ChTime, stop_time)
          => exporter.frames' = nSteps /\ FLt(exporter.lastTime, stop_time)]_vars

C3_Witness ==
  /\ pc = "done"
  /\ nSteps > 0
  /\ exporter.frames = nSteps
  /\ ~FLt(exporter.lastTime, stop_time)

(***************************************************************************)
(* The bodies: C4, C5, C6, C9                                              *)
(***************************************************************************)
Floor0 == scene0[CHOOSE i \in DOMAIN scene0 : scene0[i].name = "floor"]
Table0 == scene0[CHOOSE i \in DOMAIN scene0 : scene0[i].name = "table"]

\* C4: the floor body, marked fixed at construction, has after any number of
\* steps exactly the pose it had before the first step, position (0,-2,0)
\* and orientation, and zero velocity, whatever the table and the other
\* bodies did in those steps.
C4_FloorUnmoved ==
  nSteps > 0 =>
    /\ Body("floor").pos = Floor0.pos
    /\ Body("floor").rot = Floor0.rot
    /\ Body("floor").pos = <<R(0), R(-2), R(0)>>
    /\ Body("floor").vel = <<R(0), R(0), R(0)>>

C4_Witness ==
  /\ nSteps >= 2
  /\ Body("table").pos # Table0.pos
  /\ \E i \in Bricks : bodies[i].pos # scene0[i].pos
  /\ Body("floor").fixed

\* C5: the mass of every brick is density * (2hx)(2hy)(2hz), for the half
\* extents (hx, hy, hz) of its collision box and the brick density.
C5_BrickMass ==
  \A i \in Bricks :
    bodies[i].mass =
      RMul(RMul(RMul(density_brick, Twice(bodies[i].box[1])),
                Twice(bodies[i].box[2])),
           Twice(bodies[i].box[3]))

C5_Witness ==
  /\ Cardinality(Bricks) = nbricks_on_x * nbricks_on_y
  /\ \A i \in Bricks : bodies[i].mass = <<18, 5>>

\* The inertia of a solid box of mass m about the axis k, the other two
\* full sizes being p and q: m/12 * (p^2 + q^2).
BoxInertia(m, p, q) == RMul(RDiv(m, R(12)), RAdd(RPow2(p), RPow2(q)))

\* C6: the inertia given to every brick about each axis is that of the solid
\* box: Ixx = m/12((2hy)^2+(2hz)^2), Iyy = m/12((2hx)^2+(2hz)^2),
\* Izz = m/12((2hx)^2+(2hy)^2).
C6_BrickInertia ==
  \A i \in Bricks :
    LET b == bodies[i]
    IN  /\ b.inertia[1] = BoxInertia(b.mass, Twice(b.box[2]), Twice(b.box[3]))
        /\ b.inertia[2] = BoxInertia(b.mass, Twice(b.box[1]), Twice(b.box[3]))
        /\ b.inertia[3] = BoxInertia(b.mass, Twice(b.box[1]), Twice(b.box[2]))

C10_ScriptOnceBeforeLoop ==
  /\ exporter.scripts <= 1
  /\ exporter.scripts = 1 =>
       /\ SceneBuilt
       /\ link.added
       /\ JointConfigured
       /\ exporter.items = Len(bodies) + 1
  /\ pc \in {"solver", "while", "step", "export", "done"} => exporter.scripts = 1
  /\ nSteps > 0 \/ exporter.frames > 0 => exporter.scripts = 1

C10_Witness ==
  /\ pc = "done"
  /\ exporter.scripts = 1
  /\ exporter.frames > 1

====
